---- MODULE Spec2Model ----
(***************************************************************************)
(* Model of gamma.c: the DRM GAMMA_LUT setter with presets, --list, reset. *)
(*                                                                         *)
(* One run of the process is one behaviour.  The environment of a run is   *)
(* fixed in the initial state: the argument vector (argv), the contents of *)
(* the preset files (fs) and the properties of the CRTC (hw).  Whether a   *)
(* DRM call or an allocation succeeds is chosen at the step that makes it. *)
(*                                                                         *)
(* Text is modelled as a sequence of tokens.  A token is one of the        *)
(* characters the scanners test for ("[", "]", "=", "#", ";", " ", "BOM")  *)
(* or a word: a maximal run of other characters.  A C string literal such  *)
(* as "gamma" is the one-token sequence <<"gamma">>.                       *)
(*                                                                         *)
(* Real numbers are exact rationals.  A parameter (gamma, lift, gain,      *)
(* r, g, b) is an integer number of hundredths.                            *)
(***************************************************************************)
EXTENDS Integers, Sequences, FiniteSets, TLC

(***************************************************************************)
(* Bounds of the model.                                                    *)
(***************************************************************************)
MaxLines == 2
MaxProps == 2
MaxLutSize == 3

(***************************************************************************)
(* Program constants.                                                      *)
(***************************************************************************)
DEFAULT_CRTC == 68
GAMMA_MIN == 20
GAMMA_MAX == 500
LIFT_MIN == -50
LIFT_MAX == 50
GAIN_MIN == 50
GAIN_MAX == 150
MULT_MIN == 50
MULT_MAX == 150
DefaultLutSize == 256
U16Max == 65535
MaxPositional == 6

NULL == "NULL"
LocalPath == "./presets.ini"
EtcPath == "/etc/gamma-presets.ini"

(***************************************************************************)
(* Text helpers.                                                           *)
(***************************************************************************)
IsSpace(c) == c = " "

\* index of the first token of s that is in set cs, 0 when there is none
FirstIn(s, cs) ==
    IF \E k \in 1..Len(s) : s[k] \in cs
    THEN CHOOSE k \in 1..Len(s) : s[k] \in cs /\ \A j \in 1..(k-1) : s[j] \notin cs
    ELSE 0

RECURSIVE LTrim(_)
LTrim(s) == IF s # <<>> /\ IsSpace(Head(s)) THEN LTrim(Tail(s)) ELSE s

RECURSIVE RTrim(_)
RTrim(s) ==
    IF s # <<>> /\ IsSpace(s[Len(s)]) THEN RTrim(SubSeq(s, 1, Len(s) - 1)) ELSE s

\* s_trim: left trim, right trim, then strip one leading byte-order mark
s_trim(s) ==
    LET t == RTrim(LTrim(s))
    IN  IF t # <<>> /\ t[1] = "BOM" THEN Tail(t) ELSE t

\* the common head of the three scanners: cut the comment, trim
StripLine(line) ==
    LET sc == FirstIn(line, {"#", ";"})
        cut == IF sc > 0 THEN SubSeq(line, 1, sc - 1) ELSE line
    IN  s_trim(cut)

\* a stripped line that starts with '[': rb says whether it has a ']', and
\* name is the trimmed text between the '[' and the first ']'
SectionName(line) ==
    LET rb == FirstIn(line, {"]"})
    IN  IF rb = 0 THEN [rb |-> FALSE, name |-> <<>>]
        ELSE [rb |-> TRUE, name |-> s_trim(SubSeq(line, 2, rb - 1))]

\* a stripped line split at its first '=': eq says whether it has one, key
\* and val are the trimmed texts before and after it
KeyVal(line) ==
    LET eq == FirstIn(line, {"="})
    IN  IF eq = 0 THEN [eq |-> FALSE, key |-> <<>>, val |-> <<>>]
        ELSE [eq |-> TRUE,
              key |-> s_trim(SubSeq(line, 1, eq - 1)),
              val |-> s_trim(SubSeq(line, eq + 1, Len(line)))]

\* a C string (an argv entry, a literal) as text
CStr(w) == IF w = "" THEN <<>> ELSE <<w>>

(***************************************************************************)
(* Number parsing.  strtod and strtoul are modelled on the finite set of   *)
(* number words the model writes down; every other word is not a number.   *)
(***************************************************************************)
DoubleText ==
    ("-0.51" :> -51) @@ ("-0.50" :> -50) @@ ("0.00" :> 0) @@ ("0.10" :> 10) @@
    ("0.19" :> 19) @@ ("0.20" :> 20) @@ ("0.49" :> 49) @@ ("0.50" :> 50) @@
    ("0.51" :> 51) @@ ("1.00" :> 100) @@ ("1.20" :> 120) @@ ("1.50" :> 150) @@
    ("1.51" :> 151) @@ ("2.00" :> 200) @@ ("5.00" :> 500) @@ ("5.01" :> 501) @@
    ("68" :> 6800) @@ ("70" :> 7000)

\* words strtod converts to an infinity or a NaN, and words it reports
\* ERANGE for
NonFiniteText == {"inf", "nan"}
ERangeText == {"1e999"}

\* strtod on a text: leading white space is skipped, then one number word
\* is consumed.  full says that the conversion consumed something and
\* stopped at the end of the text.
strtod(s) ==
    LET t == LTrim(s)
        w == IF t = <<>> THEN "" ELSE t[1]
        isnum == w \in (DOMAIN DoubleText) \cup NonFiniteText \cup ERangeText
    IN  [full   |-> isnum /\ Len(t) = 1,
         errno  |-> isnum /\ w \in ERangeText,
         finite |-> ~(isnum /\ w \in NonFiniteText),
         v      |-> IF w \in DOMAIN DoubleText THEN DoubleText[w] ELSE 0]

\* strtoul with base 0: decimal, 0x hexadecimal, 0 octal
UIntText ==
    ("68" :> 68) @@ ("70" :> 70) @@ ("80" :> 80) @@ ("0x5a" :> 90) @@ ("010" :> 8)

\* the result of parse_uint32: [ok, v]
parse_uint32(s) ==
    LET t == LTrim(s)
    IN  IF Len(t) = 1 /\ t[1] \in DOMAIN UIntText
        THEN [ok |-> TRUE, v |-> UIntText[t[1]]]
        ELSE [ok |-> FALSE, v |-> 0]

\* the result of parse_double_strict: [ok, v]
parse_double_strict(s) ==
    LET d == strtod(s)
    IN  IF d.errno \/ ~d.full THEN [ok |-> FALSE, v |-> 0]
        ELSE IF ~d.finite THEN [ok |-> FALSE, v |-> 0]
        ELSE [ok |-> TRUE, v |-> d.v]

\* a variant of parse_double_in_range that clamps v into [minv, maxv]
parse_double_clamping(s, minv, maxv) ==
    LET p == parse_double_strict(s)
    IN  IF ~p.ok THEN [ok |-> FALSE, v |-> 0]
        ELSE IF p.v < minv THEN [ok |-> TRUE, v |-> minv]
        ELSE IF p.v > maxv THEN [ok |-> TRUE, v |-> maxv]
        ELSE [ok |-> TRUE, v |-> p.v]

\* the result of parse_double_in_range: [ok, v]
parse_double_in_range(s, minv, maxv) ==
    LET p == parse_double_strict(s)
    IN  IF ~p.ok THEN [ok |-> FALSE, v |-> 0]
        ELSE IF p.v < minv \/ p.v > maxv THEN [ok |-> FALSE, v |-> 0]
        ELSE [ok |-> TRUE, v |-> p.v]

(***************************************************************************)
(* State.                                                                  *)
(***************************************************************************)
VARIABLES
    argv,           \* argv[1..argc-1], each a word
    fs,             \* path -> [exists, lines]: the preset files
    hw,             \* the properties of the CRTC, in the order of props->props
    pc,             \* where the process is
    i,              \* main: index of the argument looked at
    crtc_id, crtc_override, preset_path, list_mode,
    todo,           \* paths the running search has still to try
    cur,            \* path of the FILE the running scanner holds
    ln,             \* number of the next line fgets returns
    flag,           \* scanner: wanted / in_config
    status,         \* scanner: status
    config_crtc,    \* main: config_crtc
    pv,             \* main: struct preset_vals pv
    par,            \* main: gamma_pow, lift, gain, r, g, b
    total, count,   \* list_all_presets: total; list_presets_from_file: count
    list_exit,      \* what main returns once list_all_presets is back
    out,            \* stdout, one record per printed line
    err,            \* stderr, one message kind per fprintf / perror
    opened,         \* every fopen so far, as <<function, path>>
    held,           \* resources acquired and not yet released
    count_props, pidx, lut_prop, lut_size, lut, ret,   \* set_gamma_lut
    ops,            \* DRM operations attempted so far
    failed,         \* DRM-phase operations that failed
    exit_code       \* -1 while the process runs

env   == <<argv, fs, hw>>
optv  == <<i, crtc_override, preset_path, list_mode>>
scanv == <<todo, cur, ln, flag, status>>
resv  == <<config_crtc, pv, par>>
listv == <<total, count, list_exit, out>>
drmv  == <<count_props, pidx, lut_prop, lut_size, lut, ret>>
hist  == <<ops, failed>>
vars  == <<env, pc, optv, crtc_id, scanv, resv, listv, drmv, hist,
           err, opened, held, exit_code>>

argc == Len(argv) + 1

Absent == [exists |-> FALSE, lines |-> <<>>]
FileAt(path) == IF path \in DOMAIN fs THEN fs[path] ELSE Absent

\* memset(pv, 0, sizeof(*pv))
ZeroPv ==
    [have_gamma |-> FALSE, have_lift |-> FALSE, have_gain |-> FALSE,
     have_r |-> FALSE, have_g |-> FALSE, have_b |-> FALSE, have_crtc |-> FALSE,
     gamma |-> 0, lift |-> 0, gain |-> 0, r |-> 0, g |-> 0, b |-> 0, crtc |-> 0]

\* gamma_pow is not initialised by its declaration (it is written before
\* every read); lift = 0.0, gain = r = g = b = 1.0
InitPar ==
    [gamma_pow |-> 0, lift |-> 0, gain |-> 100, r |-> 100, g |-> 100, b |-> 100]

InitProc ==
    /\ pc = "opts"
    /\ i = 1
    /\ crtc_id = DEFAULT_CRTC
    /\ crtc_override = FALSE
    /\ preset_path = NULL
    /\ list_mode = FALSE
    /\ todo = <<>> /\ cur = NULL /\ ln = 0 /\ flag = FALSE /\ status = 0
    /\ config_crtc = 0
    /\ pv = ZeroPv
    /\ par = InitPar
    /\ total = 0 /\ count = 0 /\ list_exit = 0
    /\ out = <<>> /\ err = <<>>
    /\ opened = {} /\ held = {}
    /\ count_props = 0 /\ pidx = 0 /\ lut_prop = 0 /\ lut_size = 0
    /\ lut = <<>> /\ ret = 0
    /\ ops = {} /\ failed = {}
    /\ exit_code = -1

Exit(code) == pc' = "exit" /\ exit_code' = code
Say(m) == err' = Append(err, <<m, "">>)
SayL(m, label) == err' = Append(err, <<m, label>>)

\* the search order of load_config_crtc, load_preset and list_all_presets
SearchOrder(path) == IF path # NULL THEN <<path>> ELSE <<LocalPath, EtcPath>>

(***************************************************************************)
(* main: the option loop, one iteration per step.                          *)
(***************************************************************************)
\* argv[i][0] == '-' on the words of the model
DashWords == {"-h", "--help", "--list", "--crtc", "--presets", "--bogus",
              "-0.50", "-0.51"}

OptHelp ==
    /\ pc = "opts" /\ i < argc
    /\ argv[i] \in {"-h", "--help"}
    /\ Say("usage")
    /\ Exit(0)
    /\ UNCHANGED <<env, optv, crtc_id, scanv, resv, listv, drmv, hist, opened, held>>

OptList ==
    /\ pc = "opts" /\ i < argc
    /\ argv[i] = "--list"
    /\ list_mode' = TRUE
    /\ i' = i + 1
    /\ UNCHANGED <<env, pc, crtc_override, preset_path, crtc_id, scanv, resv,
                   listv, drmv, hist, err, opened, held, exit_code>>

OptCrtc ==
    /\ pc = "opts" /\ i < argc
    /\ argv[i] = "--crtc"
    /\ IF i + 1 >= argc
       THEN /\ Say("--crtc requires an argument") /\ Exit(2)
            /\ UNCHANGED <<i, crtc_id, crtc_override>>
       ELSE LET tmp == parse_uint32(CStr(argv[i + 1]))
            IN  IF ~tmp.ok
                THEN /\ Say("Invalid --crtc value") /\ Exit(2)
                     /\ UNCHANGED <<i, crtc_id, crtc_override>>
                ELSE /\ crtc_id' = tmp.v
                     /\ crtc_override' = TRUE
                     /\ i' = i + 2
                     /\ UNCHANGED <<pc, err, exit_code>>
    /\ UNCHANGED <<env, preset_path, list_mode, scanv, resv, listv, drmv, hist,
                   opened, held>>

OptPresets ==
    /\ pc = "opts" /\ i < argc
    /\ argv[i] = "--presets"
    /\ IF i + 1 >= argc
       THEN /\ Say("--presets requires a filepath argument") /\ Exit(2)
            /\ UNCHANGED <<i, preset_path>>
       ELSE /\ preset_path' = argv[i + 1]
            /\ i' = i + 2
            /\ UNCHANGED <<pc, err, exit_code>>
    /\ UNCHANGED <<env, crtc_id, crtc_override, list_mode, scanv, resv, listv,
                   drmv, hist, opened, held>>

OptUnknown ==
    /\ pc = "opts" /\ i < argc
    /\ argv[i] \notin {"-h", "--help", "--list", "--crtc", "--presets"}
    /\ argv[i] \in DashWords
    /\ Say("Unknown option")
    /\ Exit(2)
    /\ UNCHANGED <<env, optv, crtc_id, scanv, resv, listv, drmv, hist, opened, held>>

\* the loop ends: no argument left, or the first positional (break)
OptsEnd ==
    /\ pc = "opts"
    /\ IF i >= argc THEN TRUE ELSE argv[i] \notin DashWords
    /\ IF crtc_override
       THEN pc' = "dispatch" /\ UNCHANGED todo
       ELSE pc' = "cfg_open" /\ todo' = SearchOrder(preset_path)
    /\ UNCHANGED <<env, optv, crtc_id, cur, ln, flag, status, resv, listv, drmv,
                   hist, err, opened, held, exit_code>>

(***************************************************************************)
(* load_config_crtc and load_config_crtc_from_file.                        *)
(***************************************************************************)
ConfigOpen ==
    /\ pc = "cfg_open"
    /\ LET path == Head(todo)
       IN  /\ opened' = opened \cup {<<"config", path>>}
           /\ IF ~FileAt(path).exists
              THEN /\ status' = 0
                   /\ pc' = "cfg_ret"
                   /\ UNCHANGED <<cur, ln, flag, held>>
              ELSE /\ cur' = path
                   /\ held' = held \cup {<<"FILE", path>>}
                   /\ ln' = 1 /\ flag' = FALSE /\ status' = 0
                   /\ pc' = "cfg_scan"
    /\ UNCHANGED <<env, optv, crtc_id, todo, resv, listv, drmv, hist, err, exit_code>>

\* one iteration of the while (fgets) loop
ConfigLine ==
    /\ pc = "cfg_scan" /\ ln <= Len(FileAt(cur).lines)
    /\ LET line == StripLine(FileAt(cur).lines[ln])
           sec  == SectionName(line)
           kv   == KeyVal(line)
           u    == parse_uint32(kv.val)
       IN  IF line = <<>> THEN
                ln' = ln + 1 /\ UNCHANGED <<pc, flag, status, config_crtc, err>>
           ELSE IF line[1] = "[" THEN
                /\ flag' = IF sec.rb THEN (sec.name = <<"config">>) ELSE flag
                /\ ln' = ln + 1
                /\ UNCHANGED <<pc, status, config_crtc, err>>
           ELSE IF ~flag \/ ~kv.eq \/ kv.key # <<"crtc">> THEN
                ln' = ln + 1 /\ UNCHANGED <<pc, flag, status, config_crtc, err>>
           ELSE /\ IF u.ok
                   THEN config_crtc' = u.v /\ status' = 1 /\ UNCHANGED err
                   ELSE /\ Say("Invalid crtc in config") /\ status' = -1
                        /\ UNCHANGED config_crtc
                /\ pc' = "cfg_close"
                /\ ln' = ln + 1
                /\ UNCHANGED flag
    /\ UNCHANGED <<env, optv, crtc_id, todo, cur, pv, par, listv, drmv, hist,
                   opened, held, exit_code>>

\* fclose(f); return status
ConfigClose ==
    /\ \/ pc = "cfg_scan" /\ ln > Len(FileAt(cur).lines)
       \/ pc = "cfg_close"
    /\ held' = held \ {<<"FILE", cur>>}
    /\ cur' = NULL
    /\ pc' = "cfg_ret"
    /\ UNCHANGED <<env, optv, crtc_id, todo, ln, flag, status, resv, listv, drmv,
                   hist, err, opened, exit_code>>

\* load_config_crtc goes on to the next file or returns st to main, which
\* returns 2, takes config_crtc, or keeps crtc_id
ConfigReturn ==
    /\ pc = "cfg_ret"
    /\ IF status = 0 /\ Len(todo) > 1
       THEN /\ todo' = Tail(todo)
            /\ pc' = "cfg_open"
            /\ UNCHANGED <<crtc_id, exit_code>>
       ELSE /\ todo' = <<>>
            /\ IF status < 0 THEN Exit(2) /\ UNCHANGED crtc_id
               ELSE /\ crtc_id' = IF status > 0 THEN config_crtc ELSE crtc_id
                    /\ pc' = "dispatch"
                    /\ UNCHANGED exit_code
    /\ UNCHANGED <<env, optv, cur, ln, flag, status, resv, listv, drmv, hist,
                   err, opened, held>>

(***************************************************************************)
(* main after the options: --list, missing arguments, the numeric path.    *)
(***************************************************************************)
\* the message parse_double_in_range prints when it returns false
RangeMsg(s) == IF parse_double_strict(s).ok THEN "out of range" ELSE "Invalid"

DispatchList ==
    /\ pc = "dispatch" /\ list_mode
    /\ IF i # argc
       THEN /\ Say("--list does not take positional arguments") /\ Exit(2)
            /\ UNCHANGED <<todo, total, list_exit>>
       ELSE /\ todo' = SearchOrder(preset_path)
            /\ total' = 0
            /\ list_exit' = 0
            /\ pc' = "list_open"
            /\ UNCHANGED <<err, exit_code>>
    /\ UNCHANGED <<env, optv, crtc_id, cur, ln, flag, status, resv, count, out,
                   drmv, hist, opened, held>>

DispatchMissing ==
    /\ pc = "dispatch" /\ ~list_mode /\ i >= argc
    /\ Say("Missing arguments")
    /\ Exit(2)
    /\ UNCHANGED <<env, optv, crtc_id, scanv, resv, listv, drmv, hist, opened, held>>

\* the optional numeric arguments in the order the code reads them
NumFields == <<"lift", "gain", "r", "g", "b">>
NumMin == <<LIFT_MIN, GAIN_MIN, MULT_MIN, MULT_MIN, MULT_MIN>>
NumMax == <<LIFT_MAX, GAIN_MAX, MULT_MAX, MULT_MAX, MULT_MAX>>

\* the numeric path: <gamma> [lift gain r g b]
NumericArgs ==
    /\ pc = "dispatch" /\ ~list_mode /\ i < argc
    /\ parse_double_strict(CStr(argv[i])).ok
    /\ LET gamma_pow == parse_double_strict(CStr(argv[i])).v
           remaining == argc - i
           given == {k \in 1..5 : i + k < argc}
           res == [k \in given |->
                      parse_double_in_range(CStr(argv[i + k]), NumMin[k], NumMax[k])]
           bad == {k \in given : ~res[k].ok}
           first == CHOOSE k \in bad : \A m \in bad : k <= m
           read == IF bad = {} THEN given ELSE {k \in given : k < first}
           newpar == [f \in DOMAIN par |->
                        IF f = "gamma_pow" THEN gamma_pow
                        ELSE IF \E k \in read : NumFields[k] = f
                             THEN res[CHOOSE k \in read : NumFields[k] = f].v
                             ELSE par[f]]
       IN  IF remaining < 1 \/ remaining > MaxPositional
           THEN /\ Say("Invalid number of arguments") /\ Exit(2)
                /\ par' = [par EXCEPT !.gamma_pow = gamma_pow]
           ELSE IF gamma_pow < GAMMA_MIN \/ gamma_pow > GAMMA_MAX
           THEN /\ SayL("out of range", "gamma") /\ Exit(2)
                /\ par' = [par EXCEPT !.gamma_pow = gamma_pow]
           ELSE IF bad # {}
           THEN /\ SayL(RangeMsg(CStr(argv[i + first])), NumFields[first])
                /\ Exit(2)
                /\ par' = newpar
           ELSE IF i + 1 + Cardinality(given) # argc
           THEN /\ Say("Unexpected extra arguments") /\ Exit(2)
                /\ par' = newpar
           ELSE /\ par' = newpar
                /\ pc' = "drm_open"
                /\ UNCHANGED <<err, exit_code>>
    /\ UNCHANGED <<env, optv, crtc_id, scanv, config_crtc, pv, listv, drmv, hist,
                   opened, held>>

(***************************************************************************)
(* The named-preset path: load_preset and load_preset_from_file.           *)
(***************************************************************************)
\* the built-in preset "reset"
ResetPv ==
    [ZeroPv EXCEPT !.have_gamma = TRUE, !.have_lift = TRUE, !.have_gain = TRUE,
                   !.have_r = TRUE, !.have_g = TRUE, !.have_b = TRUE,
                   !.gamma = 100, !.lift = 0, !.gain = 100,
                   !.r = 100, !.g = 100, !.b = 100]

PresetStart ==
    /\ pc = "dispatch" /\ ~list_mode /\ i < argc
    /\ ~parse_double_strict(CStr(argv[i])).ok
    /\ IF argv[i] = "reset"
       THEN /\ pv' = ResetPv
            /\ status' = 1
            /\ pc' = "pre_done"
            /\ UNCHANGED todo
       ELSE /\ pv' = ZeroPv
            /\ todo' = SearchOrder(preset_path)
            /\ pc' = "pre_open"
            /\ UNCHANGED status
    /\ UNCHANGED <<env, optv, crtc_id, cur, ln, flag, config_crtc, par, listv,
                   drmv, hist, err, opened, held, exit_code>>

PresetOpen ==
    /\ pc = "pre_open"
    /\ LET path == Head(todo)
       IN  /\ opened' = opened \cup {<<"preset", path>>}
           /\ IF ~FileAt(path).exists
              THEN /\ status' = 0
                   /\ pc' = "pre_ret"
                   /\ UNCHANGED <<cur, ln, flag, held>>
              ELSE /\ cur' = path
                   /\ held' = held \cup {<<"FILE", path>>}
                   /\ ln' = 1 /\ flag' = FALSE /\ status' = 0
                   /\ pc' = "pre_scan"
    /\ UNCHANGED <<env, optv, crtc_id, todo, resv, listv, drmv, hist, err, exit_code>>

\* the keys of a preset section that hold a real number, with their ranges
RealKeys == {"gamma", "lift", "gain", "r", "g", "b"}
KeyMin(k) == IF k = "gamma" THEN GAMMA_MIN ELSE IF k = "lift" THEN LIFT_MIN
             ELSE IF k = "gain" THEN GAIN_MIN ELSE MULT_MIN
KeyMax(k) == IF k = "gamma" THEN GAMMA_MAX ELSE IF k = "lift" THEN LIFT_MAX
             ELSE IF k = "gain" THEN GAIN_MAX ELSE MULT_MAX
Have(k) == IF k = "gamma" THEN "have_gamma" ELSE IF k = "lift" THEN "have_lift"
           ELSE IF k = "gain" THEN "have_gain" ELSE IF k = "r" THEN "have_r"
           ELSE IF k = "g" THEN "have_g" ELSE IF k = "b" THEN "have_b"
           ELSE "have_crtc"

\* one iteration of the while (fgets) loop
PresetLine ==
    /\ pc = "pre_scan" /\ ln <= Len(FileAt(cur).lines)
    /\ LET line == StripLine(FileAt(cur).lines[ln])
           sec  == SectionName(line)
           kv   == KeyVal(line)
           key  == kv.key[1]
           want == CStr(argv[i])
           d    == parse_double_in_range(kv.val, KeyMin(key), KeyMax(key))
           u    == parse_uint32(kv.val)
       IN  IF line = <<>> THEN
                ln' = ln + 1 /\ UNCHANGED <<pc, flag, status, pv, err>>
           ELSE IF line[1] = "[" THEN
                /\ flag' = IF sec.rb THEN (sec.name = want) ELSE flag
                /\ ln' = ln + 1
                /\ UNCHANGED <<pc, status, pv, err>>
           ELSE IF ~flag \/ ~kv.eq THEN
                ln' = ln + 1 /\ UNCHANGED <<pc, flag, status, pv, err>>
           ELSE IF Len(kv.key) = 1 /\ key \in RealKeys THEN
                /\ IF d.ok
                   THEN /\ pv' = [pv EXCEPT ![key] = d.v, ![Have(key)] = TRUE]
                        /\ status' = 1
                        /\ UNCHANGED <<pc, err>>
                   ELSE /\ SayL(RangeMsg(kv.val), key)
                        /\ status' = -1
                        /\ pc' = "pre_close"
                        /\ UNCHANGED pv
                /\ ln' = ln + 1
                /\ UNCHANGED flag
           ELSE IF kv.key = <<"crtc">> THEN
                /\ IF u.ok
                   THEN /\ pv' = [pv EXCEPT !.crtc = u.v, !.have_crtc = TRUE]
                        /\ status' = 1
                        /\ UNCHANGED <<pc, err>>
                   ELSE /\ Say("Invalid crtc in preset")
                        /\ status' = -1
                        /\ pc' = "pre_close"
                        /\ UNCHANGED pv
                /\ ln' = ln + 1
                /\ UNCHANGED flag
           ELSE ln' = ln + 1 /\ UNCHANGED <<pc, flag, status, pv, err>>
    /\ UNCHANGED <<env, optv, crtc_id, todo, cur, config_crtc, par, listv, drmv,
                   hist, opened, held, exit_code>>

\* fclose(f); return status
PresetClose ==
    /\ \/ pc = "pre_scan" /\ ln > Len(FileAt(cur).lines)
       \/ pc = "pre_close"
    /\ held' = held \ {<<"FILE", cur>>}
    /\ cur' = NULL
    /\ pc' = "pre_ret"
    /\ UNCHANGED <<env, optv, crtc_id, todo, ln, flag, status, resv, listv, drmv,
                   hist, err, opened, exit_code>>

\* load_preset goes on to the next file or returns st to main
PresetReturn ==
    /\ pc = "pre_ret"
    /\ IF status = 0 /\ Len(todo) > 1
       THEN todo' = Tail(todo) /\ pc' = "pre_open"
       ELSE todo' = <<>> /\ pc' = "pre_done"
    /\ UNCHANGED <<env, optv, crtc_id, cur, ln, flag, status, resv, listv, drmv,
                   hist, err, opened, held, exit_code>>

\* main with the result of load_preset
PresetResolved ==
    /\ pc = "pre_done"
    /\ IF status = 0
       THEN /\ Say("Preset not found")
            /\ todo' = SearchOrder(preset_path)
            /\ total' = 0
            /\ list_exit' = 2
            /\ pc' = "list_open"
            /\ UNCHANGED <<crtc_id, par, exit_code>>
       ELSE IF status < 0
       THEN /\ Say("Error parsing presets") /\ Exit(2)
            /\ UNCHANGED <<crtc_id, par, todo, total, list_exit>>
       ELSE /\ crtc_id' = IF pv.have_crtc THEN pv.crtc ELSE crtc_id
            /\ IF ~pv.have_gamma
               THEN /\ Say("Preset lacks required key 'gamma'") /\ Exit(2)
                    /\ UNCHANGED par
               ELSE /\ par' = [gamma_pow |-> pv.gamma,
                               lift |-> IF pv.have_lift THEN pv.lift ELSE par.lift,
                               gain |-> IF pv.have_gain THEN pv.gain ELSE par.gain,
                               r |-> IF pv.have_r THEN pv.r ELSE par.r,
                               g |-> IF pv.have_g THEN pv.g ELSE par.g,
                               b |-> IF pv.have_b THEN pv.b ELSE par.b]
                    /\ pc' = "drm_open"
                    /\ UNCHANGED <<err, exit_code>>
            /\ UNCHANGED <<todo, total, list_exit>>
    /\ UNCHANGED <<env, optv, cur, ln, flag, status, config_crtc, pv, count, out,
                   drmv, hist, opened, held>>

(***************************************************************************)
(* list_all_presets and list_presets_from_file.                            *)
(***************************************************************************)
\* file_exists(path) && list_presets_from_file(path), up to the first fgets
ListOpen ==
    /\ pc = "list_open" /\ todo # <<>>
    /\ LET path == Head(todo)
       IN  IF ~FileAt(path).exists
           THEN /\ todo' = Tail(todo)
                /\ UNCHANGED <<pc, cur, ln, count, held, opened>>
           ELSE /\ opened' = opened \cup {<<"list", path>>}
                /\ cur' = path
                /\ held' = held \cup {<<"FILE", path>>}
                /\ ln' = 1 /\ count' = 0
                /\ pc' = "list_scan"
                /\ UNCHANGED todo
    /\ UNCHANGED <<env, optv, crtc_id, flag, status, resv, total, list_exit, out,
                   drmv, hist, err, exit_code>>

\* a variant of ListLine that skips a name already printed
ListLineOnce ==
    /\ pc = "list_scan" /\ ln <= Len(FileAt(cur).lines)
    /\ LET line == StripLine(FileAt(cur).lines[ln])
           sec  == SectionName(line)
       IN  IF /\ line # <<>> /\ line[1] = "[" /\ sec.rb
              /\ sec.name # <<>> /\ sec.name # <<"config">>
              /\ ~\E k \in 1..Len(out) : out[k].k = "name" /\ out[k].t = sec.name
           THEN /\ out' = (IF count = 0
                           THEN Append(out, [k |-> "header", t |-> <<cur>>])
                           ELSE out) \o <<[k |-> "name", t |-> sec.name]>>
                /\ count' = count + 1
           ELSE UNCHANGED <<out, count>>
    /\ ln' = ln + 1
    /\ UNCHANGED <<env, pc, optv, crtc_id, todo, cur, flag, status, resv, total,
                   list_exit, drmv, hist, err, opened, held, exit_code>>

\* one iteration of the while (fgets) loop
ListLine ==
    /\ pc = "list_scan" /\ ln <= Len(FileAt(cur).lines)
    /\ LET line == StripLine(FileAt(cur).lines[ln])
           sec  == SectionName(line)
       IN  IF line # <<>> /\ line[1] = "[" /\ sec.rb
              /\ sec.name # <<>> /\ sec.name # <<"config">>
           THEN /\ out' = (IF count = 0
                           THEN Append(out, [k |-> "header", t |-> <<cur>>])
                           ELSE out) \o <<[k |-> "name", t |-> sec.name]>>
                /\ count' = count + 1
           ELSE UNCHANGED <<out, count>>
    /\ ln' = ln + 1
    /\ UNCHANGED <<env, pc, optv, crtc_id, todo, cur, flag, status, resv, total,
                   list_exit, drmv, hist, err, opened, held, exit_code>>

\* fclose(f); return count; total += count
ListClose ==
    /\ pc = "list_scan" /\ ln > Len(FileAt(cur).lines)
    /\ held' = held \ {<<"FILE", cur>>}
    /\ cur' = NULL
    /\ total' = total + count
    /\ todo' = Tail(todo)
    /\ pc' = "list_open"
    /\ UNCHANGED <<env, optv, crtc_id, ln, flag, status, resv, count, list_exit,
                   out, drmv, hist, err, opened, exit_code>>

\* the end of list_all_presets, and main's return after it
ListFinish ==
    /\ pc = "list_open" /\ todo = <<>>
    /\ out' = (IF total = 0
               THEN Append(out, [k |-> "none", t |-> <<>>])
               ELSE out) \o <<[k |-> "name", t |-> <<"reset">>]>>
    /\ Exit(list_exit)
    /\ UNCHANGED <<env, optv, crtc_id, scanv, resv, total, count, list_exit,
                   drmv, hist, err, opened, held>>

(***************************************************************************)
(* Arithmetic of set_gamma_lut.  A double is an exact rational n/d (d > 0, *)
(* in lowest terms) or a NaN.                                              *)
(***************************************************************************)
Abs(a) == IF a < 0 THEN -a ELSE a

RECURSIVE GCD(_, _)
GCD(a, b) == IF b = 0 THEN a ELSE GCD(b, a % b)

R(n, d) ==
    LET g == GCD(Abs(n), d)
    IN  [nan |-> FALSE, n |-> n \div g, d |-> d \div g]

NaN == [nan |-> TRUE, n |-> 0, d |-> 1]
Zero == R(0, 1)
One == R(1, 1)
Hundredths(h) == R(h, 100)

\* (double)a / (double)b for a >= 0: 0.0/0.0 is a NaN.  (a/0.0 with a > 0
\* is an infinity; the loop never asks for it, since i < lut_size.)
ddiv(a, b) == IF b = 0 THEN NaN ELSE R(a, b)

radd(x, y) == IF x.nan \/ y.nan THEN NaN ELSE R(x.n * y.d + y.n * x.d, x.d * y.d)
rmul(x, y) == IF x.nan \/ y.nan THEN NaN ELSE R(x.n * y.n, x.d * y.d)
\* x < y; every comparison with a NaN is false
rlt(x, y) == ~x.nan /\ ~y.nan /\ x.n * y.d < y.n * x.d

\* C fmax / fmin: when one argument is a NaN the other is returned
fmax(x, y) == IF x.nan THEN y ELSE IF y.nan THEN x ELSE IF rlt(x, y) THEN y ELSE x
fmin(x, y) == IF x.nan THEN y ELSE IF y.nan THEN x ELSE IF rlt(y, x) THEN y ELSE x

\* pow(b, e/100) has an exact rational value in these cases (b >= 0, e > 0):
\* b is 0 or 1, e is 1.00, or e is 2.00 with a square that fits the integers
SquareMax == 3000
CanPow(b, e) ==
    /\ ~b.nan
    /\ \/ b.n = 0
       \/ b.n = b.d
       \/ e = 100
       \/ e = 200 /\ b.n <= SquareMax /\ b.d <= SquareMax

pow(b, e) ==
    IF b.n = 0 THEN Zero
    ELSE IF b.n = b.d THEN One
    ELSE IF e = 100 THEN b
    ELSE R(b.n * b.n, b.d * b.d)

\* p * k = quot * q + rem, by long multiplication over the bits of k
RECURSIVE MulDivMod(_, _, _)
MulDivMod(p, k, q) ==
    IF k = 0 THEN [quot |-> 0, rem |-> 0]
    ELSE LET h == MulDivMod(p, k \div 2, q)
             r == 2 * h.rem + (k % 2) * p
         IN  [quot |-> 2 * h.quot + (r \div q), rem |-> r % q]

\* a variant of u16clamp that truncates x, without the + 0.5
u16clampTruncating(c) ==
    IF c.n < 0 THEN 0
    ELSE IF c.n > c.d THEN U16Max
    ELSE MulDivMod(c.n, U16Max, c.d).quot

\* u16clamp(c * 65535.0) for 0 <= c <= 1: (uint16_t)(x + 0.5) truncates
u16clamp65535(c) ==
    LET m == MulDivMod(c.n, U16Max, c.d)
    IN  IF c.n < 0 THEN 0
        ELSE IF c.n > c.d THEN U16Max
        ELSE m.quot + (IF 2 * m.rem >= c.d THEN 1 ELSE 0)

\* one colour of one entry: a number, or, where the power has no exact
\* rational value, the unevaluated term <<base n, base d, gamma, gain, mult>>
Channel(base, gamma_pow, gain, mult) ==
    IF CanPow(base, gamma_pow)
    THEN LET y0 == rmul(pow(base, gamma_pow), Hundredths(gain))
             y1 == IF rlt(y0, Zero) THEN Zero ELSE y0
             y  == IF rlt(One, y1) THEN One ELSE y1
             c  == fmax(Zero, fmin(One, rmul(y, Hundredths(mult))))
         IN  [v |-> u16clamp65535(c), term |-> <<>>]
    ELSE [v |-> 0, term |-> <<base.n, base.d, gamma_pow, gain, mult>>]

\* lut[i] of the loop over i < lut_size (entries are numbered from 0)
LutEntry(idx, size, p) ==
    LET x    == ddiv(idx, size - 1)
        base == fmax(Zero, radd(x, Hundredths(p.lift)))
    IN  [red   |-> Channel(base, p.gamma_pow, p.gain, p.r),
         green |-> Channel(base, p.gamma_pow, p.gain, p.g),
         blue  |-> Channel(base, p.gamma_pow, p.gain, p.b)]

SynthLut(size, p) == [idx \in 0..(size - 1) |-> LutEntry(idx, size, p)]

(***************************************************************************)
(* main: open the DRM card; set_gamma_lut; close.                          *)
(***************************************************************************)
Op(name) == ops' = ops \cup {<<name, crtc_id>>}
Fail(name) == failed' = failed \cup {name}

\* the loop over /dev/dri/card0..3 ends with a descriptor or without one;
\* drmSetClientCap follows, its result is not looked at
DrmOpen ==
    /\ pc = "drm_open"
    /\ \E ok \in BOOLEAN :
          IF ok
          THEN /\ ops' = ops \cup {<<"open", crtc_id>>, <<"drmSetClientCap", crtc_id>>}
               /\ held' = held \cup {"fd"}
               /\ pc' = "getprops"
               /\ UNCHANGED <<failed, err, exit_code>>
          ELSE /\ Op("open") /\ Fail("open")
               /\ Say("open /dev/dri/cardN")
               /\ Exit(1)
               /\ UNCHANGED held
    /\ UNCHANGED <<env, optv, crtc_id, scanv, resv, listv, drmv, opened>>

GetProps ==
    /\ pc = "getprops"
    /\ Op("drmModeObjectGetProperties")
    /\ \E ok \in BOOLEAN :
          IF ok
          THEN /\ held' = held \cup {"props"}
               /\ count_props' = Len(hw)
               /\ pidx' = 0
               /\ lut_prop' = 0
               /\ lut_size' = DefaultLutSize
               /\ pc' = "props"
               /\ UNCHANGED <<ret, failed, err>>
          ELSE /\ Fail("drmModeObjectGetProperties")
               /\ Say("drmModeObjectGetProperties")
               /\ ret' = -1
               /\ pc' = "drm_ret"
               /\ UNCHANGED <<held, count_props, pidx, lut_prop, lut_size>>
    /\ UNCHANGED <<env, optv, crtc_id, scanv, resv, listv, lut, opened, exit_code>>

\* p->prop_id of the GAMMA_LUT property: property ids are not zero
LutPropId == 29

\* drmModeGetProperty and the name tests of one iteration; a property of
\* kind "NULL" is one drmModeGetProperty returns NULL for
PropGet ==
    /\ pc = "props" /\ pidx < count_props
    /\ Op("drmModeGetProperty")
    /\ LET p == hw[pidx + 1]
       IN  IF p.name = "NULL"
           THEN /\ pidx' = pidx + 1
                /\ UNCHANGED <<pc, held, lut_prop, lut_size>>
           ELSE /\ held' = held \cup {"property"}
                /\ lut_prop' = IF p.name = "GAMMA_LUT" THEN LutPropId ELSE lut_prop
                /\ lut_size' = IF p.name = "GAMMA_LUT" THEN lut_size
                               ELSE IF p.name = "GAMMA_LUT_SIZE" THEN p.value
                               ELSE lut_size
                /\ pc' = "propfree"
                /\ UNCHANGED pidx
    /\ UNCHANGED <<env, optv, crtc_id, scanv, resv, listv, count_props, lut, ret,
                   failed, err, opened, exit_code>>

\* drmModeFreeProperty(p); i++
PropFree ==
    /\ pc = "propfree"
    /\ held' = held \ {"property"}
    /\ pidx' = pidx + 1
    /\ pc' = "props"
    /\ UNCHANGED <<env, optv, crtc_id, scanv, resv, listv, count_props, lut_prop,
                   lut_size, lut, ret, hist, err, opened, exit_code>>

\* drmModeFreeObjectProperties(props) and the test that follows it
PropsDone ==
    /\ pc = "props" /\ pidx >= count_props
    /\ held' = held \ {"props"}
    /\ IF lut_prop = 0 \/ lut_size = 0
       THEN /\ Say("CRTC has no GAMMA_LUT/GAMMA_LUT_SIZE")
            /\ Fail("GAMMA_LUT")
            /\ ret' = -1
            /\ pc' = "drm_ret"
       ELSE /\ pc' = "calloc"
            /\ UNCHANGED <<err, failed, ret>>
    /\ UNCHANGED <<env, optv, crtc_id, scanv, resv, listv, count_props, pidx,
                   lut_prop, lut_size, lut, ops, opened, exit_code>>

Calloc ==
    /\ pc = "calloc"
    /\ \E ok \in BOOLEAN :
          IF ok
          THEN /\ held' = held \cup {"lut"}
               /\ pc' = "synth"
               /\ UNCHANGED <<err, failed, ret>>
          ELSE /\ Say("calloc(lut)")
               /\ Fail("calloc")
               /\ ret' = -1
               /\ pc' = "drm_ret"
               /\ UNCHANGED held
    /\ UNCHANGED <<env, optv, crtc_id, scanv, resv, listv, count_props, pidx,
                   lut_prop, lut_size, lut, ops, opened, exit_code>>

\* the loop that fills lut[0..lut_size-1]
Synthesize ==
    /\ pc = "synth"
    /\ lut' = SynthLut(lut_size, par)
    /\ pc' = "blob"
    /\ UNCHANGED <<env, optv, crtc_id, scanv, resv, listv, count_props, pidx,
                   lut_prop, lut_size, ret, hist, err, opened, held, exit_code>>

\* drmModeCreatePropertyBlob; free(lut): the table is gone from the process
CreateBlob ==
    /\ pc = "blob"
    /\ Op("drmModeCreatePropertyBlob")
    /\ \E ok \in BOOLEAN :
          IF ok
          THEN /\ held' = (held \ {"lut"}) \cup {"blob"}
               /\ ret' = 0
               /\ pc' = "alloc"
               /\ UNCHANGED <<err, failed>>
          ELSE /\ held' = held \ {"lut"}
               /\ Say("drmModeCreatePropertyBlob")
               /\ Fail("drmModeCreatePropertyBlob")
               /\ ret' = -1
               /\ pc' = "drm_ret"
    /\ lut' = <<>>
    /\ UNCHANGED <<env, optv, crtc_id, scanv, resv, listv, count_props, pidx,
                   lut_prop, lut_size, opened, exit_code>>

\* a variant of AtomicAlloc that returns without destroying the blob
AtomicAllocKeepingBlob ==
    /\ pc = "alloc"
    /\ Op("drmModeAtomicAlloc")
    /\ \E ok \in BOOLEAN :
          IF ok
          THEN /\ held' = held \cup {"req"}
               /\ pc' = "add"
               /\ UNCHANGED <<err, failed, ret>>
          ELSE /\ Say("drmModeAtomicAlloc failed")
               /\ Fail("drmModeAtomicAlloc")
               /\ ret' = -1
               /\ pc' = "drm_ret"
               /\ UNCHANGED held
    /\ UNCHANGED <<env, optv, crtc_id, scanv, resv, listv, count_props, pidx,
                   lut_prop, lut_size, lut, opened, exit_code>>

AtomicAlloc ==
    /\ pc = "alloc"
    /\ Op("drmModeAtomicAlloc")
    /\ \E ok \in BOOLEAN :
          IF ok
          THEN /\ held' = held \cup {"req"}
               /\ pc' = "add"
               /\ UNCHANGED <<err, failed, ret>>
          ELSE /\ Say("drmModeAtomicAlloc failed")
               /\ Fail("drmModeAtomicAlloc")
               /\ held' = held \ {"blob"}
               /\ ret' = -1
               /\ pc' = "drm_ret"
    /\ UNCHANGED <<env, optv, crtc_id, scanv, resv, listv, count_props, pidx,
                   lut_prop, lut_size, lut, opened, exit_code>>

AtomicAdd ==
    /\ pc = "add"
    /\ Op("drmModeAtomicAddProperty")
    /\ \E ok \in BOOLEAN :
          IF ok
          THEN /\ pc' = "commit"
               /\ ret' = 1
               /\ UNCHANGED <<err, failed, held>>
          ELSE /\ Say("drmModeAtomicAddProperty failed")
               /\ Fail("drmModeAtomicAddProperty")
               /\ held' = held \ {"req", "blob"}
               /\ ret' = -1
               /\ pc' = "drm_ret"
    /\ UNCHANGED <<env, optv, crtc_id, scanv, resv, listv, count_props, pidx,
                   lut_prop, lut_size, lut, opened, exit_code>>

\* drmModeAtomicCommit, then both frees, whatever it returned
AtomicCommit ==
    /\ pc = "commit"
    /\ Op("drmModeAtomicCommit")
    /\ \E ok \in BOOLEAN :
          IF ok
          THEN ret' = 0 /\ UNCHANGED <<err, failed>>
          ELSE /\ ret' = -1
               /\ Say("drmModeAtomicCommit")
               /\ Fail("drmModeAtomicCommit")
    /\ held' = held \ {"req", "blob"}
    /\ pc' = "drm_ret"
    /\ UNCHANGED <<env, optv, crtc_id, scanv, resv, listv, count_props, pidx,
                   lut_prop, lut_size, lut, opened, exit_code>>

\* main after set_gamma_lut: close(fd); return ret ? 1 : 0
DrmReturn ==
    /\ pc = "drm_ret"
    /\ IF ret # 0 THEN Say("set_gamma_lut failed") ELSE UNCHANGED err
    /\ held' = held \ {"fd"}
    /\ Exit(IF ret # 0 THEN 1 ELSE 0)
    /\ UNCHANGED <<env, optv, crtc_id, scanv, resv, listv, drmv, hist, opened>>

(***************************************************************************)
(* The runs that are checked: argument vectors and preset files.           *)
(***************************************************************************)
RECURSIVE SeqsUpTo(_, _)
SeqsUpTo(S, n) ==
    IF n = 0 THEN {<<>>}
    ELSE LET shorter == SeqsUpTo(S, n - 1)
         IN  shorter \cup {Append(q, x) : q \in shorter, x \in S}

File(lines) == [exists |-> TRUE, lines |-> lines]

\* lines a generated file is made of
LinePool ==
    { <<"[", "warm", "]">>,
      <<" ", "[", " ", "cool", " ", "]", " ", "#", "c">>,
      <<"[", "config", "]">>,
      <<"[", "]">>,
      <<"gamma", "=", "1.20">>,
      <<"lift", " ", "=", " ", "0.10">>,
      <<"crtc", "=", "80">>,
      <<"gamma", "=", "5.01">> }

GeneratedFiles == {File(l) : l \in SeqsUpTo(LinePool, MaxLines)}

\* hand-written files
WarmFile ==
    File(<< <<"[", "warm", "]">>, <<"gamma", "=", "2.00">>,
            <<"crtc", "=", "0x5a">> >>)
MixedFile ==
    File(<< <<"BOM", "[", "config", "]">>, <<"crtc", " ", "=", " ", "0x5a", ";">>,
            <<"[", "warm", "]">>, <<"lift", "=", "0.50">>, <<"bogus", "=", "1">>,
            <<"[", "reset", "]">>, <<"gamma", "=", "2.00">> >>)
BadConfigFile ==
    File(<< <<"[", "config", "]">>, <<"crtc", "=", "zz">>,
            <<"[", "warm", "]">>, <<"gamma", "=", "1.20">> >>)
SplitFile ==
    File(<< <<"[", "warm">>, <<"gamma", "=", "2.00">>,
            <<"[", "warm", "]", "x">>, <<"r", "=", "0.50">>, <<"g", "=", "1.50">>,
            <<"gamma">>,
            <<"[", "cool", "]">>, <<"gamma", "=", "0.20">>,
            <<"[", "warm", "]">>, <<"gamma", "=", "5.00">>, <<"b", "=", "1.0x">> >>)

EtcPool == {Absent, WarmFile, MixedFile, BadConfigFile, SplitFile}

Fs(local, etc) == (LocalPath :> local) @@ (EtcPath :> etc)

\* properties of a CRTC
Prop(name, value) == [name |-> name, value |-> value]
PropPool ==
    {Prop("GAMMA_LUT", 0), Prop("OTHER", 0), Prop("NULL", 0)}
        \cup {Prop("GAMMA_LUT_SIZE", n) : n \in 0..MaxLutSize}
StdHw == <<Prop("GAMMA_LUT", 0), Prop("GAMMA_LUT_SIZE", MaxLutSize)>>

\* runs that vary the files
FileArgs ==
    { <<"warm">>, <<"--crtc", "70", "warm">>, <<"--list">>,
      <<"--presets", EtcPath, "warm">>, <<"--presets", EtcPath, "--list">>,
      <<"reset">> }
FileRuns ==
    /\ argv \in FileArgs
    /\ fs \in {Fs(l, e) : l \in GeneratedFiles \cup {Absent}, e \in EtcPool}
    /\ hw = StdHw

\* runs that vary the arguments
OptPool ==
    { <<>>, <<"--crtc", "70">>, <<"--crtc", "zz">>, <<"--crtc">>,
      <<"--presets", "nofile.ini">>, <<"--presets">>, <<"--bogus">>,
      <<"-h">>, <<"--help">>, <<"--list">>, <<"--list", "--crtc", "0x5a">>,
      <<"--crtc", "010", "--presets", LocalPath>> }

BasePos == <<"1.00", "0.10", "1.00", "1.00", "1.00", "1.00", "1.00">>
PosWords(j) ==
    IF j = 1 THEN {"0.19", "0.20", "2.00", "5.00", "5.01", "68", "inf", "1e999",
                   "-0.50", "warm", "reset", "nope", ""}
    ELSE IF j = 2 THEN {"-0.51", "-0.50", "0.50", "0.51", "x"}
    ELSE IF j = 7 THEN {"1.00"}
    ELSE {"0.49", "0.50", "1.50", "1.51"}
PosPool ==
    { SubSeq([BasePos EXCEPT ![t[1]] = t[3]], 1, t[2]) :
        t \in {u \in (1..7) \X (0..7) \X UNION {PosWords(j) : j \in 1..7} :
                 u[3] \in PosWords(u[1])} }

ArgRuns ==
    /\ argv \in {o \o p : o \in OptPool, p \in PosPool}
    /\ fs \in {Fs(Absent, MixedFile),
               Fs(File(<< <<"[", "warm", "]">>, <<"gamma", "=", "1.20">> >>), WarmFile)}
    /\ hw = StdHw

\* runs that vary the CRTC
HwArgs ==
    { <<"reset">>,
      <<"1.00", "0.50", "1.00", "0.50", "1.00", "1.50">>,
      <<"2.00", "-0.50", "1.50">>,
      <<"2.00", "0.10", "0.50", "1.50", "1.00", "0.50">>,
      <<"0.20", "0.50">>,
      <<"5.00", "0.10", "1.50", "1.50", "1.50", "1.50">> }
HwRuns ==
    /\ argv \in HwArgs
    /\ fs \in {Fs(Absent, Absent), Fs(Absent, MixedFile)}
    /\ hw \in SeqsUpTo(PropPool, MaxProps)

Init == InitProc /\ (FileRuns \/ ArgRuns \/ HwRuns)

Next ==
    \/ OptHelp \/ OptList \/ OptCrtc \/ OptPresets \/ OptUnknown \/ OptsEnd
    \/ ConfigOpen \/ ConfigLine \/ ConfigClose \/ ConfigReturn
    \/ DispatchList \/ DispatchMissing \/ NumericArgs
    \/ PresetStart \/ PresetOpen \/ PresetLine \/ PresetClose \/ PresetReturn
    \/ PresetResolved
    \/ ListOpen \/ ListLine \/ ListClose \/ ListFinish
    \/ DrmOpen \/ GetProps \/ PropGet \/ PropFree \/ PropsDone \/ Calloc
    \/ Synthesize \/ CreateBlob \/ AtomicAlloc \/ AtomicAdd \/ AtomicCommit
    \/ DrmReturn

Spec == Init /\ [][Next]_vars

(***************************************************************************)
(* What the files and the arguments say, read off them directly.           *)
(***************************************************************************)
Strip(f, k) == StripLine(f.lines[k])
\* line k is a section header: it starts with '[' and has a ']'
IsHeader(f, k) ==
    LET l == Strip(f, k) IN l # <<>> /\ l[1] = "[" /\ SectionName(l).rb
HeaderName(f, k) == SectionName(Strip(f, k)).name
\* line k lies in a section called name: the nearest header above it says so
InSection(f, k, name) ==
    \E h \in 1..(k - 1) :
        /\ IsHeader(f, h) /\ HeaderName(f, h) = name
        /\ \A m \in (h + 1)..(k - 1) : ~IsHeader(f, m)
\* the lines "key = ..." of the sections called name
KeyLines(f, name, key) ==
    { k \in 1..Len(f.lines) :
        LET l == Strip(f, k)
        IN  /\ l # <<>> /\ l[1] # "["
            /\ KeyVal(l).eq /\ KeyVal(l).key = <<key>>
            /\ InSection(f, k, name) }
ValueAt(f, k) == KeyVal(Strip(f, k)).val
HasSection(f, name) ==
    f.exists /\ \E h \in 1..Len(f.lines) : IsHeader(f, h) /\ HeaderName(f, h) = name

\* the section names of a file that --list shows, in file order
RECURSIVE ListedNames(_, _)
ListedNames(f, k) ==
    IF ~f.exists \/ k > Len(f.lines) THEN <<>>
    ELSE IF IsHeader(f, k) /\ HeaderName(f, k) \notin {<<>>, <<"config">>}
         THEN <<HeaderName(f, k)>> \o ListedNames(f, k + 1)
         ELSE ListedNames(f, k + 1)

\* the names on stdout
NamesOf(o) ==
    LET RECURSIVE names(_)
        names(k) == IF k > Len(o) THEN <<>>
                    ELSE IF o[k].k = "name" THEN <<o[k].t>> \o names(k + 1)
                    ELSE names(k + 1)
    IN  names(1)

ErrKinds == {err[k][1] : k \in 1..Len(err)}
OpNames == {o[1] : o \in ops}

\* messages of usage, validation, lookup and resource-parse errors
UsageMsgs ==
    { "--crtc requires an argument", "Invalid --crtc value",
      "--presets requires a filepath argument", "Unknown option",
      "Invalid crtc in config", "--list does not take positional arguments",
      "Missing arguments", "Invalid number of arguments", "out of range",
      "Invalid", "Unexpected extra arguments", "Preset not found",
      "Error parsing presets", "Invalid crtc in preset",
      "Preset lacks required key 'gamma'" }

\* the process is past the option loop and runs neither --list nor --help
PastOptions == pc \notin {"opts", "exit"} \/ (pc = "exit" /\ err = <<>>)
                  \/ (pc = "exit" /\ err # <<>> /\
                        err[1][1] \notin {"usage", "--crtc requires an argument",
                                          "Invalid --crtc value", "Unknown option",
                                          "--presets requires a filepath argument"})
Positionals == argc - i
NumericPath == PastOptions /\ ~list_mode /\ i < argc
                  /\ parse_double_strict(CStr(argv[i])).ok
NamedPath == PastOptions /\ ~list_mode /\ i < argc
                  /\ ~parse_double_strict(CStr(argv[i])).ok
Want == CStr(argv[i])

\* the files of the search order
SearchFiles == [k \in 1..Len(SearchOrder(preset_path)) |->
                   FileAt(SearchOrder(preset_path)[k])]

DrmPcs == {"drm_open", "getprops", "props", "propfree", "calloc", "synth",
           "blob", "alloc", "add", "commit", "drm_ret"}

(***************************************************************************)
(* C1.  The CRTC id handed to the DRM calls.                               *)
(***************************************************************************)
\* the value of the last --crtc option
CliCrtc ==
    LET ks == {k \in 1..(i - 1) : argv[k] = "--crtc"}
        last == CHOOSE k \in ks : \A m \in ks : m <= k
    IN  parse_uint32(CStr(argv[last + 1])).v

\* the files of the search order whose [config] sections have a crtc key
ConfigHits ==
    {k \in DOMAIN SearchFiles : KeyLines(SearchFiles[k], <<"config">>, "crtc") # {}}
\* the first crtc key of the first such file
ConfigCrtc ==
    LET first == CHOOSE k \in ConfigHits : \A m \in ConfigHits : k <= m
        f == SearchFiles[first]
        ls == KeyLines(f, <<"config">>, "crtc")
        l == CHOOSE k \in ls : \A m \in ls : k <= m
    IN  parse_uint32(ValueAt(f, l)).v

PriorityCrtc ==
    IF crtc_override THEN CliCrtc
    ELSE IF NamedPath /\ pv.have_crtc THEN pv.crtc
    ELSE IF ConfigHits # {} THEN ConfigCrtc
    ELSE DEFAULT_CRTC

\* C1: the CRTC id passed to drmModeObjectGetProperties is chosen by strict
\* priority: the --crtc value if the option was given, else the crtc key of
\* the resolved preset, else the crtc key of a [config] section in the
\* search order, else DEFAULT_CRTC.
C1_CrtcByStrictPriority ==
    \A o \in ops : o[1] = "drmModeObjectGetProperties" => o[2] = PriorityCrtc

\* --crtc 70 was given, and the properties of CRTC 90 were asked for
C1_Witness ==
    /\ crtc_override /\ CliCrtc = 70
    /\ <<"drmModeObjectGetProperties", 90>> \in ops

(***************************************************************************)
(* C3.  The first file with a matching section decides alone.              *)
(***************************************************************************)
\* every field pv holds is written in the sections called name of file f
FieldsFrom(f, name) ==
    /\ \A key \in RealKeys :
          pv[Have(key)] =>
             \E k \in KeyLines(f, name, key) :
                /\ parse_double_strict(ValueAt(f, k)).ok
                /\ parse_double_strict(ValueAt(f, k)).v = pv[key]
    /\ pv.have_crtc =>
          \E k \in KeyLines(f, name, "crtc") :
             /\ parse_uint32(ValueAt(f, k)).ok
             /\ parse_uint32(ValueAt(f, k)).v = pv.crtc

\* C3: without --presets, when ./presets.ini has a section with the wanted
\* name, load_preset never opens /etc/gamma-presets.ini and every field of
\* the resolved preset comes from ./presets.ini, whatever the section holds.
C3_FirstMatchingFileAlone ==
    (/\ pc = "pre_done" /\ preset_path = NULL /\ Want # <<"reset">>
     /\ HasSection(FileAt(LocalPath), Want))
    => /\ <<"preset", EtcPath>> \notin opened
       /\ FieldsFrom(FileAt(LocalPath), Want)

\* ./presets.ini has the section, and the preset came from /etc
C3_Witness ==
    /\ pc = "pre_done" /\ preset_path = NULL /\ Want # <<"reset">>
    /\ HasSection(FileAt(LocalPath), Want)
    /\ <<"preset", EtcPath>> \in opened
    /\ pv.have_gamma /\ ~FieldsFrom(FileAt(LocalPath), Want)

(***************************************************************************)
(* C4.  The number of positional arguments.                                *)
(***************************************************************************)
Rejected == ops = {} /\ pc \notin DrmPcs /\ (pc = "exit" => exit_code = 2)

\* C4: without --list and --help, a run whose number of positional
\* arguments is not in 1..6 exits with code 2 and attempts no DRM
\* operation, on the numeric path and on the named-preset path.
C4_BadPositionalCountRejected ==
    (PastOptions /\ ~list_mode /\ Positionals \notin 1..MaxPositional) => Rejected

\* a preset name followed by six more words, and the commit was made
C4_Witness ==
    /\ NamedPath /\ Positionals = MaxPositional + 1
    /\ "drmModeAtomicCommit" \in OpNames
    /\ pc = "exit" /\ exit_code = 0

(***************************************************************************)
(* C7.  A preset without gamma; the defaults of the optional fields.       *)
(***************************************************************************)
\* the files of the search order with a section of the wanted name
Matches == {k \in DOMAIN SearchFiles : HasSection(SearchFiles[k], Want)}
FirstMatch == SearchFiles[CHOOSE k \in Matches : \A m \in Matches : k <= m]

OptionalDefaults ==
    /\ ~pv.have_lift => par.lift = 0
    /\ ~pv.have_gain => par.gain = 100
    /\ ~pv.have_r => par.r = 100
    /\ ~pv.have_g => par.g = 100
    /\ ~pv.have_b => par.b = 100

\* C7: a named preset whose matching section has no gamma key is rejected
\* (exit code 2, no DRM operation) whatever other keys it has; when gamma
\* is there, every absent optional field has its default (lift 0, gain 1,
\* r = g = b = 1) in the parameters handed to synthesis.
C7_NoGammaRejected ==
    /\ (/\ NamedPath /\ Want # <<"reset">> /\ Matches # {}
        /\ KeyLines(FirstMatch, Want, "gamma") = {}) => Rejected
    /\ (NamedPath /\ pc \in DrmPcs) => OptionalDefaults

\* the first file with the section has no gamma in it, and the run succeeded
C7_Witness ==
    /\ NamedPath /\ Want # <<"reset">> /\ Matches # {}
    /\ KeyLines(FirstMatch, Want, "gamma") = {}
    /\ "drmModeAtomicCommit" \notin failed
    /\ pc = "exit" /\ exit_code = 0

(***************************************************************************)
(* C9.  A table of one entry.                                              *)
(***************************************************************************)
\* the entry the formula gives at the normalized position x
EntryAt(x, p) ==
    LET base == fmax(Zero, radd(x, Hundredths(p.lift)))
    IN  [red   |-> Channel(base, p.gamma_pow, p.gain, p.r),
         green |-> Channel(base, p.gamma_pow, p.gain, p.g),
         blue  |-> Channel(base, p.gamma_pow, p.gain, p.b)]

\* C9: with GAMMA_LUT_SIZE = 1 the table has exactly one entry, and it is
\* the entry the formula gives at x = 0.0.
C9_SingleEntryAtZero ==
    (pc = "blob" /\ lut_size = 1) =>
        DOMAIN lut = {0} /\ lut[0] = EntryAt(Zero, par)

\* gamma 1, lift 0.5, gain 1, g 1: the formula at x = 0 gives 32768, the
\* table holds 0
C9_Witness ==
    /\ pc = "blob" /\ lut_size = 1
    /\ par.gamma_pow = 100 /\ par.lift = LIFT_MAX /\ par.gain = 100 /\ par.g = 100
    /\ EntryAt(Zero, par).green = [v |-> 32768, term |-> <<>>]
    /\ lut[0].green = [v |-> 0, term |-> <<>>]

(***************************************************************************)
(* C2.  Errors, exit codes and the platform.                               *)
(***************************************************************************)
\* the run reported a usage, validation, lookup or resource-parse error, or
\* its positional count is bad
ErrorOccurs ==
    \/ ErrKinds \cap UsageMsgs # {}
    \/ PastOptions /\ ~list_mode /\ Positionals \notin 1..MaxPositional

\* C2: a run in which a usage, validation, lookup or resource-parse error
\* occurs exits with code 2 and touches the platform at no point before;
\* exit code 1 comes only after a platform operation was attempted and
\* failed.
C2_ErrorsExitTwoBeforePlatform ==
    /\ ErrorOccurs => Rejected
    /\ (pc = "exit" /\ exit_code = 2) => ops = {}
    /\ (pc = "exit" /\ exit_code = 1) => (ops # {} /\ failed # {})

\* a run with seven positional arguments exits with 1 after the platform
\* failed it
C2_Witness ==
    /\ ErrorOccurs /\ Positionals = MaxPositional + 1
    /\ pc = "exit" /\ exit_code = 1 /\ "open" \in failed

(***************************************************************************)
(* C5.  What --list prints.                                                *)
(***************************************************************************)
ListDone == pc = "exit" /\ list_mode /\ exit_code = 0 /\ "usage" \notin ErrKinds

\* C5: a successful --list prints the listed section names of the first
\* file in file order, then those of the second file (or those of the
\* --presets file alone), then "reset" last; nothing is deduplicated, and
\* without a readable file "reset" is the only name.
C5_ListPrintsEveryNameThenReset ==
    ListDone =>
        NamesOf(out) =
            (IF preset_path # NULL
             THEN ListedNames(FileAt(preset_path), 1)
             ELSE ListedNames(FileAt(LocalPath), 1)
                     \o ListedNames(FileAt(EtcPath), 1))
            \o << <<"reset">> >>

\* a name defined in both files is printed twice
C5_Witness ==
    /\ ListDone /\ preset_path = NULL
    /\ NamesOf(out) = << <<"warm">>, <<"warm">>, <<"reset">> >>

(***************************************************************************)
(* C6.  The preset "reset" and the identity ramp.                          *)
(***************************************************************************)
Neutral == [gamma_pow |-> 100, lift |-> 0, gain |-> 100,
            r |-> 100, g |-> 100, b |-> 100]
\* round(idx * 65535 / (n - 1)), halves upwards
Ramp(idx, n) == (2 * idx * U16Max + (n - 1)) \div (2 * (n - 1))
Exactly(v) == [v |-> v, term |-> <<>>]

\* C6: the preset name "reset" resolves to gamma 1, lift 0, gain 1,
\* r = g = b = 1 whatever the files hold, and for every table length
\* N >= 2 the table made from it is the identity ramp: red = green = blue =
\* round(i * 65535 / (N - 1)) for every i in 0..N-1.
C6_ResetIsIdentityRamp ==
    (NamedPath /\ Want = <<"reset">>) =>
        /\ pc \in DrmPcs => par = Neutral
        /\ (pc = "blob" /\ lut_size >= 2) =>
              /\ DOMAIN lut = 0..(lut_size - 1)
              /\ \A idx \in DOMAIN lut :
                    lut[idx] = [red   |-> Exactly(Ramp(idx, lut_size)),
                                green |-> Exactly(Ramp(idx, lut_size)),
                                blue  |-> Exactly(Ramp(idx, lut_size))]

\* a table of 256 entries, with a file that has a [reset] section of its own
C6_Witness ==
    /\ NamedPath /\ Want = <<"reset">>
    /\ HasSection(FileAt(EtcPath), <<"reset">>)
    /\ pc = "blob" /\ lut_size = DefaultLutSize
    /\ lut[128].green = Exactly(32896) /\ lut[255].blue = Exactly(U16Max)

(***************************************************************************)
(* C8.  The parameters handed to synthesis.                                *)
(***************************************************************************)
Fields == <<"gamma_pow", "lift", "gain", "r", "g", "b">>
FieldKey(j) == IF j = 1 THEN "gamma" ELSE Fields[j]
FieldMin(j) == KeyMin(FieldKey(j))
FieldMax(j) == KeyMax(FieldKey(j))

\* the j-th number of the command line
CliValue(j) == parse_double_strict(CStr(argv[i + j - 1]))
\* the numbers the wanted sections of the search order give to a key
FileValues(key) ==
    UNION { { parse_double_strict(ValueAt(SearchFiles[n], k)) :
                 k \in KeyLines(SearchFiles[n], Want, key) } :
            n \in DOMAIN SearchFiles }

\* par[Fields[j]] is what the command line or the preset supplies, or the default
Supplied(j) ==
    LET v == par[Fields[j]]
    IN  IF NumericPath
        THEN IF j <= Positionals THEN CliValue(j).ok /\ CliValue(j).v = v
             ELSE v = Neutral[Fields[j]]
        ELSE IF Want = <<"reset">> THEN v = Neutral[Fields[j]]
        ELSE \/ j > 1 /\ v = Neutral[Fields[j]]
             \/ \E p \in FileValues(FieldKey(j)) : p.ok /\ p.v = v

\* a number of the command line, or of the first matching file's wanted
\* sections, lies outside its range
OutOfRangeSupplied ==
    \E j \in 1..MaxPositional :
       \/ /\ NumericPath /\ j <= Positionals
          /\ CliValue(j).ok
          /\ (CliValue(j).v < FieldMin(j) \/ CliValue(j).v > FieldMax(j))
       \/ /\ NamedPath /\ Want # <<"reset">> /\ Matches # {}
          /\ \E k \in KeyLines(FirstMatch, Want, FieldKey(j)) :
                LET p == parse_double_strict(ValueAt(FirstMatch, k))
                IN  p.ok /\ (p.v < FieldMin(j) \/ p.v > FieldMax(j))

\* C8: when synthesis starts every parameter lies in its closed range and
\* is the value the command line or the preset supplied, or the field's
\* default; a supplied value outside its range is never clamped: the run
\* ends with exit code 2 and never reaches synthesis.
C8_ParametersInRangeNeverClamped ==
    /\ pc = "synth" =>
          \A j \in 1..MaxPositional :
             /\ FieldMin(j) <= par[Fields[j]] /\ par[Fields[j]] <= FieldMax(j)
             /\ Supplied(j)
    /\ ~Rejected => ~OutOfRangeSupplied

\* synthesis starts with parameters on the edges of their ranges
C8_Witness ==
    /\ pc = "synth" /\ NumericPath
    /\ par.gamma_pow = GAMMA_MAX /\ par.gain = GAIN_MAX /\ par.b = MULT_MAX

\* a run with gamma 5.01 has ended with exit code 2
C8_WitnessRejected ==
    /\ OutOfRangeSupplied /\ pc = "exit" /\ exit_code = 2
    /\ "out of range" \in ErrKinds

(***************************************************************************)
(* C10.  Resources at exit.                                                *)
(***************************************************************************)
\* C10: at every exit of the process nothing acquired is still held: every
\* opened file is closed; the properties list, every fetched property, the
\* LUT buffer, the blob and the atomic request are freed or destroyed; the
\* device descriptor is closed.
C10_NothingHeldAtExit == pc = "exit" => held = {}

\* an exit after files were read, the device was opened and the add failed
C10_Witness ==
    /\ pc = "exit" /\ exit_code = 1
    /\ opened # {}
    /\ "drmModeAtomicAddProperty" \in failed

====
